---- MODULE Spec2Model ----
(***************************************************************************)
(* Model of the notebook component catalog of backend/templates.py:        *)
(* the cell extractor, the class extractor, the component-cell selector,    *)
(* TemplateCatalog._load and the catalog's query methods.                   *)
(*                                                                          *)
(* Text is modelled line by line.  A line is a record                       *)
(*   [k, name, bases, txt]                                                  *)
(* with k one of "class" (a top-level class header), "body" (an indented    *)
(* statement), "stmt" (a top-level statement that is not a class),          *)
(* "blank" (whitespace only) and "bad" (text ast.parse rejects, such as a   *)
(* shell magic).  A cell's source text is a sequence of lines, and so is    *)
(* the source of a class.  Python object identity is modelled by a heap     *)
(* (objs) of TemplateClass records; lists and the name index hold indices   *)
(* into the heap.  project_dir is the content of the project directory     *)
(* the request handlers of main.py read and write.                          *)
(***************************************************************************)
EXTENDS Integers, Sequences, FiniteSets, TLC

VARIABLES samples_dir, objs, components, examples, by_name, status, ret,
          project_dir

vars == <<samples_dir, objs, components, examples, by_name, status, ret,
          project_dir>>

(***************************************************************************)
(* Bounds of the model.                                                     *)
(***************************************************************************)
\* The notebook files of the directory, the code cells of the directory and
\* the class declarations of the directory.
MaxNotebooks == 2
MaxCells == 2
MaxClasses == 4

(***************************************************************************)
(* Module constants of templates.py.                                        *)
(***************************************************************************)
SCENE_BASES == {"Scene", "ThreeDScene", "MovingCameraScene", "ZoomedScene"}

CATEGORY_MAP ==
    [n \in {"Node", "Wire", "Resistor", "Capacitor", "Inductor",
            "JosephsonJunction", "Ground", "ReferenceGrid"}
        |-> "circuit_elements"]
    @@ [n \in {"CooperPairBox", "resonator", "TransistorSymbol",
               "SwitchSymbol", "Transmon"} |-> "superconducting"]
    @@ [n \in {"Hadamard", "Oracle", "Not", "Measurement", "Identity",
               "Zgate", "Cnot", "Register"} |-> "quantum_gates"]
    @@ [n \in {"GeneralAtom", "NeutralAtom", "RydbergAtom",
               "MajoranaParticle"} |-> "atoms"]
    @@ [n \in {"ElectronSpinObject", "SpinFlip"} |-> "spin"]
    @@ [n \in {"BlochSphere"} |-> "bloch_sphere"]
    @@ [n \in {"ComplexityComparison"} |-> "complexity"]

CATEGORY_LABELS ==
    ("quantum_gates" :> "Quantum Gates")
    @@ ("circuit_elements" :> "Circuit Elements")
    @@ ("atoms" :> "Atoms & Particles")
    @@ ("bloch_sphere" :> "Bloch Sphere")
    @@ ("spin" :> "Electron Spin")
    @@ ("superconducting" :> "Superconducting Qubits")
    @@ ("complexity" :> "Complexity")
    @@ ("other" :> "Other")

(***************************************************************************)
(* Lines of text and base-class expressions.                                *)
(***************************************************************************)
NameBase(id) == [k |-> "name", id |-> id]
AttrBase(id) == [k |-> "attr", id |-> id]
\* A base that is neither a name nor an attribute access, such as Generic[T].
OtherBase(id) == [k |-> "other", id |-> id]

ClassLine(name, bases) == [k |-> "class", name |-> name, bases |-> bases, txt |-> ""]
BodyLine(txt) == [k |-> "body", name |-> "", bases |-> <<>>, txt |-> txt]
StmtLine == [k |-> "stmt", name |-> "", bases |-> <<>>, txt |-> "x = 1"]
BlankLine == [k |-> "blank", name |-> "", bases |-> <<>>, txt |-> ""]
BadLine == [k |-> "bad", name |-> "", bases |-> <<>>, txt |-> "!pip install manim"]
\* A decorator line at the top level of the text.
DecoratorLine == [k |-> "decorator", name |-> "", bases |-> <<>>, txt |-> "@dataclass"]

\* str.strip() of a text is empty: the text has no line, or only blank ones.
IsBlankText(text) == \A i \in 1..Len(text) : text[i].k = "blank"

\* str.rstrip(): the trailing whitespace-only lines are dropped.
RECURSIVE RStrip(_)
RStrip(text) ==
    IF text = <<>> THEN <<>>
    ELSE IF text[Len(text)].k = "blank" THEN RStrip(SubSeq(text, 1, Len(text) - 1))
    ELSE text

(***************************************************************************)
(* ast.parse, restricted to what the catalog reads from the tree: whether   *)
(* the text parses, and for each top-level ClassDef its lineno and          *)
(* end_lineno.                                                              *)
(***************************************************************************)
\* The kind of the last non-blank line before line i ("none" at the start).
RECURSIVE PrevKind(_, _)
PrevKind(text, i) ==
    IF i <= 1 THEN "none"
    ELSE IF text[i - 1].k = "blank" THEN PrevKind(text, i - 1)
    ELSE text[i - 1].k

\* The kind of the first non-blank line after line i ("none" at the end).
RECURSIVE NextKind(_, _)
NextKind(text, i) ==
    IF i >= Len(text) THEN "none"
    ELSE IF text[i + 1].k = "blank" THEN NextKind(text, i + 1)
    ELSE text[i + 1].k

\* The lines j > i that end a run of body/blank lines starting right after i.
BodyEnds(text, i) ==
    {j \in (i + 1)..Len(text) :
        /\ text[j].k = "body"
        /\ \A m \in (i + 1)..j : text[m].k \in {"body", "blank"}}

SetMax(S) == CHOOSE x \in S : \A y \in S : y <= x

\* end_lineno of the ClassDef whose header is line i.
EndLineno(text, i) == SetMax(BodyEnds(text, i))

\* ast.parse(text) does not raise SyntaxError.
ParseOk(text) ==
    \A i \in 1..Len(text) :
        /\ text[i].k # "bad"
        /\ text[i].k = "class" => BodyEnds(text, i) # {}
        /\ text[i].k = "body" => PrevKind(text, i) \in {"class", "body"}
        /\ text[i].k = "decorator" => NextKind(text, i) \in {"decorator", "class"}

(***************************************************************************)
(* _extract_classes_from_source                                             *)
(***************************************************************************)
\* base_names that collects only the Name bases.
RECURSIVE ExtractorBaseNames_NamesOnly(_)
ExtractorBaseNames_NamesOnly(bases) ==
    IF bases = <<>> THEN <<>>
    ELSE IF bases[1].k = "name"
         THEN <<bases[1].id>> \o ExtractorBaseNames_NamesOnly(Tail(bases))
         ELSE ExtractorBaseNames_NamesOnly(Tail(bases))

\* base_names of the class extractor: a Name gives its id, an Attribute its
\* dotted path, any other expression nothing.
RECURSIVE ExtractorBaseNames(_)
ExtractorBaseNames(bases) ==
    IF bases = <<>> THEN <<>>
    ELSE IF bases[1].k \in {"name", "attr"}
         THEN <<bases[1].id>> \o ExtractorBaseNames(Tail(bases))
         ELSE ExtractorBaseNames(Tail(bases))

\* The concatenation of a sequence of sequences.
RECURSIVE Flatten(_)
Flatten(ss) == IF ss = <<>> THEN <<>> ELSE ss[1] \o Flatten(Tail(ss))

SeqRange(s) == {s[i] : i \in 1..Len(s)}

\* The strings of the model that contain "MathTex", that contain "Tex(" and
\* that end with "Tex".
ContainsMathTex == {"MathTex(x)", "MathTex", "MathTexLabel"}
ContainsTexCall == {"MathTex(x)", "Tex(x)"}
EndsWithTex == {"MathTex", "LabelTex", "Tex"}

\* "MathTex" in line or "Tex(" in line; a class header is
\* "class name(bases):", or "class name:" without bases.
LineHasLatex(line) ==
    IF line.k = "class"
    THEN \/ line.name \in ContainsMathTex
         \/ line.name \in EndsWithTex /\ line.bases # <<>>
         \/ \E b \in 1..Len(line.bases) :
                line.bases[b].id \in ContainsMathTex \cup ContainsTexCall
    ELSE line.txt \in ContainsMathTex \cup ContainsTexCall

\* requires_latex computed on the whole text handed to the extractor.
RequiresLatex_WholeText(text, class_source) ==
    \E i \in 1..Len(text) : LineHasLatex(text[i])

\* "MathTex" in class_source or "Tex(" in class_source
RequiresLatex(text, class_source) ==
    \E i \in 1..Len(class_source) : LineHasLatex(class_source[i])

\* CategoryOf that looks at is_scene before the table.
CategoryOf_SceneFirst(name, is_scene) ==
    IF is_scene THEN "examples"
    ELSE IF name \in DOMAIN CATEGORY_MAP THEN CATEGORY_MAP[name] ELSE "other"

CategoryOf(name, is_scene) ==
    IF name \in DOMAIN CATEGORY_MAP THEN CATEGORY_MAP[name]
    ELSE IF is_scene THEN "examples" ELSE "other"

\* The TemplateClass built for the ClassDef whose header is line i of text.
ClassAt(text, i, notebook_name) ==
    LET base_names == ExtractorBaseNames(text[i].bases)
        class_source == RStrip(SubSeq(text, i, EndLineno(text, i)))
        is_scene == (SeqRange(base_names) \cap SCENE_BASES) # {}
    IN  [name |-> text[i].name,
         source |-> class_source,
         base_classes |-> base_names,
         is_scene |-> is_scene,
         requires_latex |-> RequiresLatex(text, class_source),
         category |-> CategoryOf(text[i].name, is_scene),
         notebook |-> notebook_name]

RECURSIVE ClassesFrom(_, _, _)
ClassesFrom(text, i, notebook_name) ==
    IF i > Len(text) THEN <<>>
    ELSE IF text[i].k = "class"
         THEN <<ClassAt(text, i, notebook_name)>> \o ClassesFrom(text, i + 1, notebook_name)
         ELSE ClassesFrom(text, i + 1, notebook_name)

\* The extractor without the handler of SyntaxError: whatever class headers
\* the text holds are returned.
_extract_classes_from_source_NoHandler(source, notebook_name) ==
    [k \in 1..Cardinality({i \in 1..Len(source) : source[i].k = "class"}) |->
        [name |-> source[CHOOSE i \in 1..Len(source) :
                            /\ source[i].k = "class"
                            /\ Cardinality({j \in 1..i : source[j].k = "class"}) = k].name,
         source |-> source, base_classes |-> <<>>, is_scene |-> TRUE,
         requires_latex |-> FALSE, category |-> "examples",
         notebook |-> notebook_name]]

_extract_classes_from_source(source, notebook_name) ==
    IF ~ParseOk(source) THEN <<>> ELSE ClassesFrom(source, 1, notebook_name)

(***************************************************************************)
(* _find_component_cell                                                     *)
(***************************************************************************)
\* base_names of the selector: only Name bases are collected.
RECURSIVE SelectorBaseNames(_)
SelectorBaseNames(bases) ==
    IF bases = <<>> THEN <<>>
    ELSE IF bases[1].k = "name"
         THEN <<bases[1].id>> \o SelectorBaseNames(Tail(bases))
         ELSE SelectorBaseNames(Tail(bases))

\* component_count that counts every class of the cell, scenes included.
ComponentCount_EveryClass(cell_source) ==
    IF ~ParseOk(cell_source) THEN 0
    ELSE Cardinality({i \in 1..Len(cell_source) : cell_source[i].k = "class"})

\* component_count of one cell; an unparseable cell is skipped (count 0).
ComponentCount(cell_source) ==
    IF ~ParseOk(cell_source) THEN 0
    ELSE Cardinality({i \in 1..Len(cell_source) :
            /\ cell_source[i].k = "class"
            /\ (SeqRange(SelectorBaseNames(cell_source[i].bases)) \cap SCENE_BASES) = {}})

NoCell == [found |-> FALSE, cell |-> <<>>]

\* FindFrom with >= for >: the last cell of the greatest count wins.
RECURSIVE FindFrom_LastWins(_, _, _, _)
FindFrom_LastWins(cells, i, best_cell, best_count) ==
    IF i > Len(cells) THEN best_cell
    ELSE IF ComponentCount(cells[i]) >= best_count /\ ComponentCount(cells[i]) > 0
         THEN FindFrom_LastWins(cells, i + 1, [found |-> TRUE, cell |-> cells[i]],
                                ComponentCount(cells[i]))
         ELSE FindFrom_LastWins(cells, i + 1, best_cell, best_count)

RECURSIVE FindFrom(_, _, _, _)
FindFrom(cells, i, best_cell, best_count) ==
    IF i > Len(cells) THEN best_cell
    ELSE IF ComponentCount(cells[i]) > best_count
         THEN FindFrom(cells, i + 1, [found |-> TRUE, cell |-> cells[i]],
                       ComponentCount(cells[i]))
         ELSE FindFrom(cells, i + 1, best_cell, best_count)

_find_component_cell(cells) == FindFrom(cells, 1, NoCell, 0)

(***************************************************************************)
(* _extract_code_cells                                                      *)
(***************************************************************************)
\* A notebook file: [valid, cells]; valid is whether json.load accepts it.
\* A cell of the notebook: [cell_type, is_list, source, fragments]; its
\* source is the text in source, or, when is_list, the list of texts in
\* fragments.
\* "\n".join(source) for "".join(source): an empty line between fragments.
RECURSIVE JoinedByNewline(_)
JoinedByNewline(fragments) ==
    IF fragments = <<>> THEN <<>>
    ELSE IF Len(fragments) = 1 THEN fragments[1]
    ELSE fragments[1] \o <<BlankLine>> \o JoinedByNewline(Tail(fragments))

\* CellText that joins the fragments with a line terminator.
CellText_JoinedByNewline(cell) ==
    IF cell.is_list THEN JoinedByNewline(cell.fragments) ELSE cell.source

\* text = "".join(source) if isinstance(source, list) else source
CellText(cell) == IF cell.is_list THEN Flatten(cell.fragments) ELSE cell.source

RECURSIVE CodeCellsFrom(_, _)
CodeCellsFrom(nbcells, i) ==
    IF i > Len(nbcells) THEN <<>>
    ELSE IF nbcells[i].cell_type # "code" THEN CodeCellsFrom(nbcells, i + 1)
    ELSE IF IsBlankText(CellText(nbcells[i])) THEN CodeCellsFrom(nbcells, i + 1)
    ELSE <<CellText(nbcells[i])>> \o CodeCellsFrom(nbcells, i + 1)

\* [raised |-> TRUE] when json.load raises, else the list of cell sources.
_extract_code_cells(nb) ==
    IF ~nb.valid THEN [raised |-> TRUE, cells |-> <<>>]
    ELSE [raised |-> FALSE, cells |-> CodeCellsFrom(nb.cells, 1)]

(***************************************************************************)
(* TemplateCatalog._load                                                    *)
(***************************************************************************)
\* Sorted in descending order.
RECURSIVE Sorted_Descending(_)
Sorted_Descending(S) ==
    IF S = {} THEN <<>>
    ELSE LET m == CHOOSE x \in S : \A y \in S : y <= x
         IN  <<m>> \o Sorted_Descending(S \ {m})

\* sorted(...): the file names of the directory in ascending order.
RECURSIVE Sorted(_)
Sorted(S) ==
    IF S = {} THEN <<>>
    ELSE LET m == CHOOSE x \in S : \A y \in S : x <= y
         IN  <<m>> \o Sorted(S \ {m})

\* d[key] = value on a dict
DictPut(d, key, value) ==
    [x \in (DOMAIN d) \cup {key} |-> IF x = key THEN value ELSE d[x]]

\* The state of a catalog under construction: the three fields of the
\* catalog, the heap, the two local sets of _load and whether an exception
\* has left _load.
EmptyCatalog ==
    [objs |-> <<>>, components |-> <<>>, examples |-> <<>>, by_name |-> <<>>,
     seen_components |-> {}, seen_examples |-> {}, raised |-> FALSE]

\* RegisterComponents without the test of is_scene.
RECURSIVE RegisterComponents_AnyClass(_, _, _)
RegisterComponents_AnyClass(c, classes, i) ==
    IF i > Len(classes) THEN c
    ELSE IF classes[i].name \notin c.seen_components
         THEN RegisterComponents_AnyClass(
                [c EXCEPT !.seen_components = @ \cup {classes[i].name},
                          !.objs = Append(@, classes[i]),
                          !.components = Append(@, Len(c.objs) + 1),
                          !.by_name = DictPut(@, classes[i].name, Len(c.objs) + 1)],
                classes, i + 1)
         ELSE RegisterComponents_AnyClass(c, classes, i + 1)

\* for cls in classes: if not cls.is_scene and cls.name not in seen_components
RECURSIVE RegisterComponents(_, _, _)
RegisterComponents(c, classes, i) ==
    IF i > Len(classes) THEN c
    ELSE IF ~classes[i].is_scene /\ classes[i].name \notin c.seen_components
         THEN RegisterComponents(
                [c EXCEPT !.seen_components = @ \cup {classes[i].name},
                          !.objs = Append(@, classes[i]),
                          !.components = Append(@, Len(c.objs) + 1),
                          !.by_name = DictPut(@, classes[i].name, Len(c.objs) + 1)],
                classes, i + 1)
         ELSE RegisterComponents(c, classes, i + 1)

\* The registration of examples without the assignment to the name index.
RECURSIVE RegisterExamples_NoIndex(_, _, _)
RegisterExamples_NoIndex(c, classes, i) ==
    IF i > Len(classes) THEN c
    ELSE IF classes[i].is_scene /\ classes[i].name \notin c.seen_examples
         THEN RegisterExamples_NoIndex(
                [c EXCEPT !.seen_examples = @ \cup {classes[i].name},
                          !.objs = Append(@, classes[i]),
                          !.examples = Append(@, Len(c.objs) + 1)],
                classes, i + 1)
         ELSE RegisterExamples_NoIndex(c, classes, i + 1)

\* for cls in classes: if cls.is_scene and cls.name not in seen_examples
RECURSIVE RegisterExamples(_, _, _)
RegisterExamples(c, classes, i) ==
    IF i > Len(classes) THEN c
    ELSE IF classes[i].is_scene /\ classes[i].name \notin c.seen_examples
         THEN RegisterExamples(
                [c EXCEPT !.seen_examples = @ \cup {classes[i].name},
                          !.objs = Append(@, classes[i]),
                          !.examples = Append(@, Len(c.objs) + 1),
                          !.by_name = DictPut(@, classes[i].name, Len(c.objs) + 1)],
                classes, i + 1)
         ELSE RegisterExamples(c, classes, i + 1)

\* for cell_source in cells: if cell_source == component_cell: continue
RECURSIVE OtherCells(_, _, _, _, _)
OtherCells(c, cells, i, component_cell, nb_name) ==
    IF i > Len(cells) THEN c
    ELSE IF component_cell.found /\ cells[i] = component_cell.cell
         THEN OtherCells(c, cells, i + 1, component_cell, nb_name)
         ELSE OtherCells(
                RegisterExamples(c, _extract_classes_from_source(cells[i], nb_name), 1),
                cells, i + 1, component_cell, nb_name)

\* The body of "for nb_path in notebooks" for one notebook whose cells were read.
LoadNotebook(c, cells, nb_name) ==
    LET component_cell == _find_component_cell(cells)
        c1 == IF component_cell.found
              THEN RegisterComponents(
                     c, _extract_classes_from_source(component_cell.cell, nb_name), 1)
              ELSE c
    IN  OtherCells(c1, cells, 1, component_cell, nb_name)

\* for nb_path in notebooks; an exception of _extract_code_cells is not
\* caught and ends the loop.
RECURSIVE LoadFrom(_, _, _, _)
LoadFrom(c, files, notebooks, i) ==
    IF i > Len(notebooks) THEN c
    ELSE LET read == _extract_code_cells(files[notebooks[i]])
         IN  IF read.raised THEN [c EXCEPT !.raised = TRUE]
             ELSE LoadFrom(LoadNotebook(c, read.cells, notebooks[i]),
                           files, notebooks, i + 1)

_load(dir) ==
    IF ~dir.exists THEN EmptyCatalog
    ELSE LoadFrom(EmptyCatalog, dir.files, Sorted(DOMAIN dir.files), 1)

(***************************************************************************)
(* The query methods of TemplateCatalog.  c is the catalog: its heap and    *)
(* its three fields.  A returned TemplateClass is a reference into the      *)
(* heap; a returned base_classes list is the list of the heap object.       *)
(***************************************************************************)
None == [is_none |-> TRUE, v |-> <<>>]
Some(v) == [is_none |-> FALSE, v |-> v]

\* list(self._components)
get_components(c) == c.components

\* list(self._examples)
get_examples(c) == c.examples

\* self._by_name.get(name); 0 is None
get_by_name(c, name) == IF name \in DOMAIN c.by_name THEN c.by_name[name] ELSE 0

\* [c for c in self._components if c.category == category]
RECURSIVE ByCategoryFrom(_, _, _)
ByCategoryFrom(c, i, category) ==
    IF i > Len(c.components) THEN <<>>
    ELSE IF c.objs[c.components[i]].category = category
         THEN <<c.components[i]>> \o ByCategoryFrom(c, i + 1, category)
         ELSE ByCategoryFrom(c, i + 1, category)

get_by_category(c, category) == ByCategoryFrom(c, 1, category)

\* len() of a string made of these identifiers
StrLen ==
    ("Node" :> 4) @@ ("Wire" :> 4) @@ ("Hadamard" :> 8) @@ ("Demo" :> 4)
    @@ ("VGroup" :> 6) @@ ("Mobject" :> 7) @@ ("Scene" :> 5) @@ ("ThreeDScene" :> 11)
    @@ ("manim.Scene" :> 11) @@ ("pass" :> 4) @@ ("MathTex(x)" :> 10)
    @@ ("Tex(x)" :> 6) @@ ("Text(x)" :> 7) @@ ("x = 1" :> 5)
    @@ ("!pip install manim" :> 18) @@ ("" :> 0) @@ ("@dataclass" :> 10)

RECURSIVE BasesLen(_)
BasesLen(bases) ==
    IF bases = <<>> THEN 0
    ELSE (IF bases[1].k = "other" THEN 3 ELSE StrLen[bases[1].id])
         + (IF Len(bases) > 1 THEN 2 ELSE 0) + BasesLen(Tail(bases))

\* The number of characters of a line, without its line terminator.
LineLen(line) ==
    IF line.k = "class"
    THEN IF line.bases = <<>> THEN 6 + StrLen[line.name] + 1
         ELSE 6 + StrLen[line.name] + 1 + BasesLen(line.bases) + 2
    ELSE IF line.k = "body" THEN 4 + StrLen[line.txt]
    ELSE StrLen[line.txt]

\* len(text) of a right-stripped text: its lines and the terminators between them.
RECURSIVE CharCount(_)
CharCount(text) ==
    IF text = <<>> THEN 0
    ELSE LineLen(text[1]) + (IF Len(text) > 1 THEN 1 ELSE 0) + CharCount(Tail(text))

\* cat_key.replace("_", " ").title()
TitleCase ==
    ("quantum_gates" :> "Quantum Gates") @@ ("circuit_elements" :> "Circuit Elements")
    @@ ("atoms" :> "Atoms") @@ ("bloch_sphere" :> "Bloch Sphere") @@ ("spin" :> "Spin")
    @@ ("superconducting" :> "Superconducting") @@ ("complexity" :> "Complexity")
    @@ ("other" :> "Other") @@ ("examples" :> "Examples")

\* The dict get_categories appends for one component; base_classes is the
\* list of the heap object itself.
ComponentInfo(c, ref) ==
    [name |-> c.objs[ref].name,
     category |-> c.objs[ref].category,
     requires_latex |-> c.objs[ref].requires_latex,
     base_classes |-> ref,
     char_count |-> CharCount(c.objs[ref].source)]

\* DictAppend that starts a new group unless the last group has the key.
DictAppend_LastGroupOnly(cats, cat, info) ==
    IF cats # <<>> /\ cats[Len(cats)].key = cat
    THEN [cats EXCEPT ![Len(cats)].items = Append(@, info)]
    ELSE Append(cats, [key |-> cat, items |-> <<info>>])

\* cats[cat].append(info), after cats[cat] = [] for a new key; the dict is
\* a sequence of [key, items] in insertion order.
DictAppend(cats, cat, info) ==
    IF \E g \in 1..Len(cats) : cats[g].key = cat
    THEN [g \in 1..Len(cats) |->
            IF cats[g].key = cat
            THEN [cats[g] EXCEPT !.items = Append(@, info)] ELSE cats[g]]
    ELSE Append(cats, [key |-> cat, items |-> <<info>>])

RECURSIVE CatsFrom(_, _, _)
CatsFrom(c, i, cats) ==
    IF i > Len(c.components) THEN cats
    ELSE CatsFrom(c, i + 1,
            DictAppend(cats, c.objs[c.components[i]].category,
                       ComponentInfo(c, c.components[i])))

get_categories(c) ==
    LET cats == CatsFrom(c, 1, <<>>)
    IN  [g \in 1..Len(cats) |->
            [name |-> cats[g].key,
             label |-> IF cats[g].key \in DOMAIN CATEGORY_LABELS
                       THEN CATEGORY_LABELS[cats[g].key] ELSE TitleCase[cats[g].key],
             components |-> cats[g].items]]

\* "\n\n\n".join(parts): the terminator of the last line of a part and two
\* empty lines stand between consecutive parts.
RECURSIVE JoinSources(_)
JoinSources(parts) ==
    IF parts = <<>> THEN <<>>
    ELSE IF Len(parts) = 1 THEN parts[1]
    ELSE parts[1] \o <<BlankLine, BlankLine>> \o JoinSources(Tail(parts))

\* [c for c in self._components if c.name in name_set]
RECURSIVE ByNamesFrom(_, _, _)
ByNamesFrom(c, i, name_set) ==
    IF i > Len(c.components) THEN <<>>
    ELSE IF c.objs[c.components[i]].name \in name_set
         THEN <<c.components[i]>> \o ByNamesFrom(c, i + 1, name_set)
         ELSE ByNamesFrom(c, i + 1, name_set)

\* get_component_source that takes the components in the order of names.
get_component_source_InputOrder(c, names) ==
    LET pick(n) == ByNamesFrom(c, 1, {n})
        targets == IF names.is_none THEN c.components
                   ELSE Flatten([j \in 1..Len(names.v) |-> pick(names.v[j])])
    IN  IF targets = <<>> THEN <<>>
        ELSE JoinSources([j \in 1..Len(targets) |-> c.objs[targets[j]].source])

\* names is None, or Some(list of names)
get_component_source(c, names) ==
    LET targets == IF names.is_none THEN c.components
                   ELSE ByNamesFrom(c, 1, SeqRange(names.v))
    IN  IF targets = <<>> THEN <<>>
        ELSE JoinSources([j \in 1..Len(targets) |-> c.objs[targets[j]].source])

HeadingLine(label) == [k |-> "heading", name |-> "", bases |-> <<>>, txt |-> label]
BulletLine(comp) ==
    [k |-> "bullet", name |-> comp.name, bases |-> comp.base_classes,
     txt |-> IF comp.requires_latex THEN " [uses LaTeX]" ELSE ""]

RECURSIVE SummaryFrom(_, _, _)
SummaryFrom(c, i, current_cat) ==
    IF i > Len(c.components) THEN <<>>
    ELSE LET comp == c.objs[c.components[i]]
             cat_label == IF comp.category \in DOMAIN CATEGORY_LABELS
                          THEN CATEGORY_LABELS[comp.category] ELSE comp.category
         IN  IF cat_label # current_cat
             THEN <<BlankLine, HeadingLine(cat_label), BulletLine(comp)>>
                    \o SummaryFrom(c, i + 1, cat_label)
             ELSE <<BulletLine(comp)>> \o SummaryFrom(c, i + 1, current_cat)

\* "\n".join(lines); a heading is "\n## label", an empty line and the heading.
get_summary(c) == SummaryFrom(c, 1, "")

\* get_example_source without the test of is_scene.
get_example_source_AnyEntry(c, name) ==
    LET cls == get_by_name(c, name)
    IN  IF cls # 0 THEN Some(c.objs[cls].source) ELSE None

get_example_source(c, name) ==
    LET cls == get_by_name(c, name)
    IN  IF cls # 0 /\ c.objs[cls].is_scene THEN Some(c.objs[cls].source) ELSE None

get_examples_list(c) ==
    [j \in 1..Len(c.examples) |->
        [name |-> c.objs[c.examples[j]].name,
         requires_latex |-> c.objs[c.examples[j]].requires_latex,
         notebook |-> c.objs[c.examples[j]].notebook,
         char_count |-> CharCount(c.objs[c.examples[j]].source)]]

(***************************************************************************)
(* The request handlers of main.py that read the catalog.                   *)
(***************************************************************************)
PromptLine(txt) == [k |-> "prompt", name |-> "", bases |-> <<>>, txt |-> txt]

LibraryHeading == PromptLine("AVAILABLE COMPONENT LIBRARY:")
SummaryHeading ==
    PromptLine("AVAILABLE COMPONENTS (not included in this prompt, but the user may select them):")

\* bool(selected_components): None and the empty list are false.
Truthy(opt) == ~opt.is_none /\ opt.v # <<>>

\* The component_rules of build_system_prompt: the library section when the
\* selection is not empty and has source, else the summary section when the
\* summary is not blank, else nothing.
ComponentRules(c, selected_components) ==
    LET library ==
            IF Truthy(selected_components)
                    /\ get_component_source(c, selected_components) # <<>>
            THEN <<LibraryHeading, PromptLine("(code fence: python)")>>
                    \o get_component_source(c, selected_components)
                    \o <<PromptLine("(code fence)"),
                         PromptLine("When using these components, include the full class definition(s)")>>
            ELSE <<>>
        summary == get_summary(c)
    IN  IF ~IsBlankText(summary) /\ library = <<>>
        THEN <<SummaryHeading>> \o summary
                \o <<PromptLine("If you need any of these components, recreate simplified versions")>>
        ELSE library

\* build_system_prompt that adds the summary section whenever the summary is
\* not blank.
build_system_prompt_AlwaysSummary(c, latex_available, selected_components) ==
    <<PromptLine("RULES:"),
      PromptLine(IF latex_available THEN "LATEX_ENABLED_RULES" ELSE "LATEX_DISABLED_RULES")>>
        \o ComponentRules(c, selected_components)
        \o (IF ~IsBlankText(get_summary(c))
            THEN <<SummaryHeading>> \o get_summary(c) ELSE <<>>)
        \o <<PromptLine("RESPOND WITH ONLY THE CODE BLOCK.")>>

\* BASE_SYSTEM_PROMPT.format(latex_rules=..., component_rules=...)
build_system_prompt(c, latex_available, selected_components) ==
    <<PromptLine("RULES:"),
      PromptLine(IF latex_available THEN "LATEX_ENABLED_RULES" ELSE "LATEX_DISABLED_RULES")>>
        \o ComponentRules(c, selected_components)
        \o <<PromptLine("RESPOND WITH ONLY THE CODE BLOCK.")>>

\* GET /api/status; LATEX_AVAILABLE is what the last detection found.
get_status(c, latex_available) ==
    [latex_available |-> latex_available,
     template_count |-> Len(get_components(c))]

\* GET /api/templates
get_templates(c) ==
    [categories |-> get_categories(c), examples |-> get_examples_list(c)]

\* GET /api/templates/{name}/source
get_template_source(c, name) ==
    LET item == get_by_name(c, name)
    IN  IF item = 0
        THEN [status_code |-> 404, body |-> [error |-> name]]
        ELSE [status_code |-> 200,
              body |-> [name |-> c.objs[item].name,
                        source |-> c.objs[item].source,
                        requires_latex |-> c.objs[item].requires_latex,
                        is_scene |-> c.objs[item].is_scene]]

(***************************************************************************)
(* The request handlers of main.py that read and write the project          *)
(* directory.  A text is a sequence of characters, of which the model       *)
(* tells "CR" and "LF" from the others; a file holds the characters         *)
(* written to it.                                                            *)
(***************************************************************************)
NoFile == [exists |-> FALSE, content |-> <<>>]
File(content) == [exists |-> TRUE, content |-> content]
\* media is the newest .mp4 file under media/, if there is one.
EmptyProject ==
    [storyboard |-> NoFile, scene |-> NoFile, render_mp4 |-> NoFile, render_log |-> NoFile,
     media |-> NoFile]

DEFAULT_SCENE == <<"from manim import *", "LF">>

\* os.linesep of the platform whose paths main.py names (/opt/homebrew,
\* /Library/TeX).
LineSep == <<"LF">>

\* f.write(text) on a file opened in text mode: every "\n" is written as
\* os.linesep.
RECURSIVE WriteText(_)
WriteText(text) ==
    IF text = <<>> THEN <<>>
    ELSE (IF text[1] = "LF" THEN LineSep ELSE <<text[1]>>) \o WriteText(Tail(text))

\* f.read() on a file opened in text mode: "\r\n" and "\r" are read as "\n".
RECURSIVE ReadText(_)
ReadText(content) ==
    IF content = <<>> THEN <<>>
    ELSE IF content[1] = "CR"
         THEN IF Len(content) > 1 /\ content[2] = "LF"
              THEN <<"LF">> \o ReadText(Tail(Tail(content)))
              ELSE <<"LF">> \o ReadText(Tail(content))
         ELSE <<content[1]>> \o ReadText(Tail(content))

\* A storyboard is a JSON object, modelled by the characters of its one
\* string value (<<>> is the object without members).  json.dump(...,
\* indent=2) writes the braces on lines of their own and escapes the
\* control characters of a string.
JsonEscape(ch) == IF ch = "CR" THEN "\\r" ELSE IF ch = "LF" THEN "\\n" ELSE ch
JsonUnescape(ch) == IF ch = "\\r" THEN "CR" ELSE IF ch = "\\n" THEN "LF" ELSE ch

JsonDump(obj) ==
    IF obj = <<>> THEN <<"{}">>
    ELSE <<"{", "LF">> \o [j \in 1..Len(obj) |-> JsonEscape(obj[j])] \o <<"LF", "}">>

\* json.load of what JsonDump wrote, once read in text mode.
JsonLoad(text) ==
    IF text = <<"{}">> THEN <<>>
    ELSE [j \in 1..(Len(text) - 4) |-> JsonUnescape(text[j + 2])]

\* POST /api/save: a field that is None leaves its file alone.
save_project(p, req) ==
    [p EXCEPT
        !.storyboard = IF req.storyboard_json.is_none THEN @
                       ELSE File(WriteText(JsonDump(req.storyboard_json.v))),
        !.scene = IF req.scene_code.is_none THEN @
                  ELSE File(WriteText(req.scene_code.v))]

\* GET /api/load: the directory after the call and the response.
load_project(p) ==
    [dir |-> IF p.scene.exists THEN p
             ELSE [p EXCEPT !.scene = File(WriteText(DEFAULT_SCENE))],
     response |->
        [storyboard_json |-> IF p.storyboard.exists
                             THEN Some(JsonLoad(ReadText(p.storyboard.content)))
                             ELSE None,
         scene_code |-> IF p.scene.exists THEN ReadText(p.scene.content)
                        ELSE DEFAULT_SCENE,
         has_render |-> p.render_mp4.exists]]

\* What the manim subprocess and the copy of its video did.  The subprocess
\* finished with a return code, was killed at the timeout, or could not be
\* started (exception); produced is the .mp4 it wrote under media/ (<<>>
\* when it wrote none); copy tells whether shutil.copy2 completed ("done"),
\* raised before it opened render.mp4 ("unopened") or raised after it
\* truncated render.mp4 ("truncated").
RenderLog(run) ==
    IF run.kind = "finished" THEN <<"stdout", "LF", "stderr">>
    ELSE IF run.kind = "timeout" THEN <<"Render timed out after 120 seconds.">>
    ELSE <<"Render error: ">>

ErrorLog == <<"Render error: ">>

\* POST /api/render: the directory after the call and the response.
render_scene(p, req, run) ==
    LET ran == [p EXCEPT !.scene = File(WriteText(req.scene_code)),
                         !.render_log = File(WriteText(RenderLog(run))),
                         !.media = IF run.produced # <<>> THEN File(run.produced) ELSE @]
    IN  IF run.kind = "finished" /\ ran.media.exists /\ run.returncode = 0
        THEN IF run.copy = "done"
             THEN [dir |-> [ran EXCEPT !.render_mp4 = File(ran.media.content)],
                   response |-> [ok |-> TRUE, mp4_url |-> Some(<<"/api/render.mp4">>),
                                 log |-> RenderLog(run)]]
             ELSE [dir |-> [ran EXCEPT
                              !.render_mp4 = IF run.copy = "truncated" THEN File(<<>>) ELSE @,
                              !.render_log = File(WriteText(ErrorLog))],
                   response |-> [ok |-> FALSE, mp4_url |-> None, log |-> ErrorLog]]
        ELSE [dir |-> ran,
              response |-> [ok |-> FALSE, mp4_url |-> None, log |-> RenderLog(run)]]

(***************************************************************************)
(* The inputs: directories of notebook files whose cells are written over  *)
(* an alphabet of class declarations.                                       *)
(***************************************************************************)
SeqsUpTo(S, n) == UNION {[1..m -> S] : m \in 0..n}

\* A class declaration [name, bases, body] written as text.
DeclText(d) == <<ClassLine(d.name, d.bases), BodyLine(d.body)>>

RECURSIVE DeclsText(_)
DeclsText(ds) ==
    IF ds = <<>> THEN <<>> ELSE DeclText(ds[1]) \o DeclsText(Tail(ds))

\* The texts of a code cell that count n: n class declarations one after the
\* other, and, counting one, a text that does not parse.
CellTexts(decls, n) ==
    {DeclsText(ds) : ds \in [1..n -> decls]}
        \cup (IF n = 1 THEN {<<BadLine>>} ELSE {})

CodeCell(text) ==
    [cell_type |-> "code", is_list |-> FALSE, source |-> text, fragments |-> <<>>]

MalformedNotebook == [valid |-> FALSE, cells |-> <<>>]

\* The lists of at most maxCells code cells whose texts count at most
\* maxClasses in all.
RECURSIVE CellsUnder(_, _, _)
CellsUnder(decls, maxCells, maxClasses) ==
    {<<>>} \cup
        (IF maxCells = 0 THEN {}
         ELSE UNION {{<<CodeCell(t)>> \o rest :
                        t \in CellTexts(decls, n),
                        rest \in CellsUnder(decls, maxCells - 1, maxClasses - n)} :
                     n \in 1..maxClasses})

\* What the texts of a list of cells count in all.
RECURSIVE CellsCount(_)
CellsCount(cells) ==
    IF cells = <<>> THEN 0
    ELSE Cardinality({i \in 1..Len(cells[1].source) :
                        cells[1].source[i].k \in {"class", "bad"}})
            + CellsCount(Tail(cells))

\* The notebook files: the malformed one and the well-formed ones.
Notebooks(decls, maxCells, maxClasses) ==
    {[valid |-> TRUE, cells |-> cs] : cs \in CellsUnder(decls, maxCells, maxClasses)}
        \cup {MalformedNotebook}

\* The ways to store notebooks under the file names 1..n, with at most
\* maxCells code cells and maxClasses class declarations in all.
RECURSIVE FilesUnder(_, _, _, _)
FilesUnder(decls, n, maxCells, maxClasses) ==
    IF n = 0 THEN {<<>>}
    ELSE UNION {{f @@ (n :> nb) :
                    f \in FilesUnder(decls, n - 1, maxCells - Len(nb.cells),
                                     maxClasses - CellsCount(nb.cells))} :
                nb \in Notebooks(decls, maxCells, maxClasses)}

\* The directory is missing, or holds at most maxNotebooks notebook files.
Dirs(decls, maxNotebooks, maxCells, maxClasses) ==
    {[exists |-> FALSE, files |-> <<>>]}
        \cup {[exists |-> TRUE, files |-> f] :
                f \in UNION {FilesUnder(decls, n, maxCells, maxClasses) :
                                n \in 0..maxNotebooks}}

Decl(name, base, body) == [name |-> name, bases |-> <<base>>, body |-> body]

\* Alphabets of the load: one name as component and as scene; one component
\* name declared in two ways; a component and a scene of different names.
LoadAlphabets ==
    {{Decl("Node", NameBase("VGroup"), "pass"), Decl("Node", NameBase("Scene"), "pass")},
     {Decl("Node", NameBase("VGroup"), "pass"), Decl("Node", NameBase("Mobject"), "MathTex(x)")},
     {Decl("Hadamard", NameBase("VGroup"), "pass"), Decl("Demo", NameBase("Scene"), "pass")}}

\* Alphabets of the queries: components of two categories; a component and
\* a scene.
QueryAlphabets ==
    {{Decl("Node", NameBase("VGroup"), "pass"),
      Decl("Hadamard", NameBase("VGroup"), "MathTex(x)"),
      Decl("Wire", NameBase("Mobject"), "pass")},
     {Decl("Node", NameBase("VGroup"), "pass"), Decl("Demo", NameBase("Scene"), "Tex(x)")}}

MaxQueryCells == 1
MaxQueryClasses == 3

(***************************************************************************)
(* The catalog as a state machine: construction, then queries.              *)
(***************************************************************************)
NoRet == [op |-> "none", args |-> <<>>, val |-> <<>>]

\* A project directory that does not hold any of its files.
Fresh ==
    /\ objs = <<>>
    /\ components = <<>>
    /\ examples = <<>>
    /\ by_name = <<>>
    /\ status = "new"
    /\ ret = NoRet
    /\ project_dir = EmptyProject

\* The catalog in the current state.
Cat == [objs |-> objs, components |-> components, examples |-> examples,
        by_name |-> by_name]

Init ==
    /\ \E a \in LoadAlphabets :
          samples_dir \in Dirs(a, MaxNotebooks, MaxCells, MaxClasses)
    /\ Fresh

\* catalog = TemplateCatalog(): __init__ and the _load it calls.
Construct ==
    /\ status = "new"
    /\ ret.op = "none"
    /\ LET c == _load(samples_dir)
       IN  /\ objs' = c.objs
           /\ components' = c.components
           /\ examples' = c.examples
           /\ by_name' = c.by_name
           /\ status' = IF c.raised THEN "failed" ELSE "loaded"
    /\ UNCHANGED <<samples_dir, ret, project_dir>>

Next == Construct

Spec == Init /\ [][Next]_vars

(***************************************************************************)
(* Queries on the constructed catalog, and a caller that mutates what a     *)
(* query returned.                                                          *)
(***************************************************************************)
QueryNames == {"Node", "Hadamard", "Demo", "Missing"}
QueryCategories == {"circuit_elements", "quantum_gates", "other"}
SourceNames == {"Node", "Hadamard", "Missing"}
MaxNames == 2
MaxBaseClasses == 2

Return(op, args, val) ==
    /\ status = "loaded"
    /\ ret' = [op |-> op, args |-> args, val |-> val]
    /\ UNCHANGED <<samples_dir, objs, components, examples, by_name, status, project_dir>>

GetComponents == Return("get_components", <<>>, get_components(Cat))

GetExamples == Return("get_examples", <<>>, get_examples(Cat))

GetByName == \E name \in QueryNames : Return("get_by_name", <<name>>, get_by_name(Cat, name))

GetByCategory ==
    \E category \in QueryCategories :
        Return("get_by_category", <<category>>, get_by_category(Cat, category))

GetCategories == Return("get_categories", <<>>, get_categories(Cat))

GetComponentSource ==
    \E names \in {None} \cup {Some(ns) : ns \in SeqsUpTo(SourceNames, MaxNames)} :
        Return("get_component_source", <<names>>, get_component_source(Cat, names))

\* The components regrouped by category, categories in first-seen order.
Regrouped(c) ==
    Flatten([g \in 1..Len(get_categories(c)) |->
                get_by_category(c, get_categories(c)[g].name)])

\* GetSummary that first groups self._components by category in place.
GetSummary_RegroupsInPlace ==
    /\ status = "loaded"
    /\ components' = Regrouped(Cat)
    /\ ret' = [op |-> "get_summary", args |-> <<>>,
               val |-> get_summary([Cat EXCEPT !.components = Regrouped(Cat)])]
    /\ UNCHANGED <<samples_dir, objs, examples, by_name, status, project_dir>>

GetSummary == Return("get_summary", <<>>, get_summary(Cat))

GetExampleSource ==
    \E name \in QueryNames :
        Return("get_example_source", <<name>>, get_example_source(Cat, name))

GetExamplesList == Return("get_examples_list", <<>>, get_examples_list(Cat))

\* The heap objects a returned value refers to.
RetRefs ==
    IF ret.op \in {"get_components", "get_examples", "get_by_category"}
    THEN SeqRange(ret.val)
    ELSE IF ret.op = "get_by_name" THEN {ret.val} \ {0}
    ELSE IF ret.op = "get_categories"
    THEN UNION {{ret.val[g].components[j].base_classes :
                    j \in 1..Len(ret.val[g].components)} : g \in 1..Len(ret.val)}
    ELSE {}

\* The caller empties the list a query returned: ret.val.clear()
MutateReturnedList ==
    /\ ret.op \in {"get_components", "get_examples", "get_by_category",
                   "get_categories", "get_examples_list"}
    /\ ret.val # <<>>
    /\ ret' = [op |-> "mutated", args |-> <<ret.op>>, val |-> <<>>]
    /\ UNCHANGED <<samples_dir, objs, components, examples, by_name, status, project_dir>>

\* The caller appends to the base_classes list of a returned entry:
\* entry.base_classes.append("Scene")
MutateReturnedBaseClasses ==
    \E r \in RetRefs :
        /\ \A o \in 1..Len(objs) : Len(objs[o].base_classes) < MaxBaseClasses
        /\ objs' = [objs EXCEPT ![r].base_classes = Append(@, "Scene")]
        /\ ret' = [op |-> "mutated", args |-> <<ret.op>>, val |-> <<>>]
        /\ UNCHANGED <<samples_dir, components, examples, by_name, status, project_dir>>

\* The queries are made on catalogs loaded from one well-formed notebook.
QueryInit ==
    /\ \E a \in QueryAlphabets :
          \E cs \in CellsUnder(a, MaxQueryCells, MaxQueryClasses) :
              samples_dir = [exists |-> TRUE,
                             files |-> (1 :> [valid |-> TRUE, cells |-> cs])]
    /\ Fresh

QueryNext ==
    \/ Construct
    \/ GetComponents
    \/ GetExamples
    \/ GetByName
    \/ GetByCategory
    \/ GetCategories
    \/ GetComponentSource
    \/ GetSummary
    \/ GetExampleSource
    \/ GetExamplesList
    \/ MutateReturnedList
    \/ MutateReturnedBaseClasses

QuerySpec == QueryInit /\ [][QueryNext]_vars

(***************************************************************************)
(* The constructed catalog under its query methods and the request          *)
(* handlers that read it.                                                   *)
(***************************************************************************)
GetStatus ==
    \E latex_available \in BOOLEAN :
        Return("get_status", <<>>, get_status(Cat, latex_available))

GetTemplates == Return("get_templates", <<>>, get_templates(Cat))

GetTemplateSource ==
    \E name \in QueryNames :
        Return("get_template_source", <<name>>, get_template_source(Cat, name))

\* generate_from_sketch and chat_refine: the prompt they build.
\* The names of a selection: a registered and an unregistered one.
SelectedNames == {"Node", "Missing"}

BuildSystemPrompt ==
    \E latex_available \in BOOLEAN :
        \E selected \in {None} \cup {Some(ns) : ns \in SeqsUpTo(SelectedNames, MaxNames)} :
            Return("build_system_prompt", <<latex_available, selected>>,
                   build_system_prompt(Cat, latex_available, selected))

HandlerNext ==
    \/ Construct
    \/ GetComponents
    \/ GetExamples
    \/ GetByName
    \/ GetByCategory
    \/ GetCategories
    \/ GetComponentSource
    \/ GetSummary
    \/ GetExampleSource
    \/ GetExamplesList
    \/ GetStatus
    \/ GetTemplates
    \/ GetTemplateSource
    \/ BuildSystemPrompt

HandlerSpec == QueryInit /\ [][HandlerNext]_vars

(***************************************************************************)
(* The component-cell selector on its own: a list of cells, then the call.  *)
(***************************************************************************)
MaxSelectorCells == 2
MaxSelectorClasses == 2

SelectorDecls ==
    {Decl("Node", NameBase("VGroup"), "pass"),
     Decl("Demo", NameBase("Scene"), "pass"),
     Decl("Wire", AttrBase("manim.Scene"), "pass")}

\* The cell texts of the selector: up to MaxSelectorClasses declarations, a
\* text that does not parse, and a text that parses and declares no class.
SelectorTexts ==
    UNION {CellTexts(SelectorDecls, n) : n \in 1..MaxSelectorClasses}
        \cup {<<StmtLine>>}

SelectorInit ==
    /\ \E n \in 0..MaxSelectorCells :
          \E cs \in [1..n -> SelectorTexts] :
              samples_dir = [exists |-> TRUE,
                             files |-> (1 :> [valid |-> TRUE,
                                              cells |-> [i \in 1..n |-> CodeCell(cs[i])]])]
    /\ Fresh

\* The cells handed to the selector.
SelectorInput == _extract_code_cells(samples_dir.files[1]).cells

FindComponentCell ==
    /\ ret.op = "none"
    /\ status = "new"
    /\ ret' = [op |-> "_find_component_cell", args |-> <<SelectorInput>>,
               val |-> _find_component_cell(SelectorInput)]
    /\ UNCHANGED <<samples_dir, objs, components, examples, by_name, status, project_dir>>

SelectorNext == FindComponentCell

SelectorSpec == SelectorInit /\ [][SelectorNext]_vars

(***************************************************************************)
(* The class extractor on its own: a text of a few lines in the first cell  *)
(* of a notebook whose next cell declares a scene; the extractor is called  *)
(* on the text, and the catalog is loaded from the notebook.                *)
(***************************************************************************)
MaxExtractorLines == 4

\* A top-level statement that uses MathTex.
TexStmtLine == [k |-> "stmt", name |-> "", bases |-> <<>>, txt |-> "MathTex(x)"]

\* The lines the texts are written with: lines that decide whether the text
\* parses; class headers of names in and out of the category table with
\* bases of every kind; headers and bodies with and without the LaTeX
\* substrings; decorated and undecorated definitions.
ExtractorAlphabets ==
    {{ClassLine("Hadamard", <<NameBase("VGroup")>>), BodyLine("pass"),
      StmtLine, BlankLine, BadLine},
     {ClassLine("Hadamard", <<NameBase("VGroup")>>),
      ClassLine("Hadamard", <<NameBase("Scene")>>),
      ClassLine("Custom", <<>>),
      ClassLine("Custom", <<NameBase("VGroup"), NameBase("ThreeDScene")>>),
      ClassLine("Custom", <<AttrBase("manim.Scene"), NameBase("VGroup")>>),
      ClassLine("Custom", <<OtherBase("Generic[T]"), NameBase("MovingCameraScene")>>),
      BodyLine("pass")},
     {ClassLine("Node", <<NameBase("VGroup")>>),
      ClassLine("LabelTex", <<NameBase("VGroup")>>),
      ClassLine("Label", <<NameBase("MathTex")>>),
      ClassLine("Plain", <<NameBase("Tex")>>),
      BodyLine("pass"), BodyLine("MathTex(x)"), BodyLine("Tex(x)"), BodyLine("Text(x)"),
      TexStmtLine},
     {DecoratorLine, ClassLine("Node", <<NameBase("VGroup")>>), BodyLine("pass"),
      StmtLine, BlankLine}}

\* The cell after the text.
NextCell == DeclText(Decl("Demo", NameBase("Scene"), "pass"))

ExtractorInit ==
    /\ \E a \in ExtractorAlphabets :
          \E n \in 0..MaxExtractorLines :
              \E text \in [1..n -> a] :
                  samples_dir =
                      [exists |-> TRUE,
                       files |-> (1 :> [valid |-> TRUE,
                                        cells |-> <<CodeCell(text), CodeCell(NextCell)>>])]
    /\ Fresh

\* The text handed to the extractor.
ExtractorInput == samples_dir.files[1].cells[1].source

ExtractClasses ==
    /\ ret.op = "none"
    /\ ret' = [op |-> "_extract_classes_from_source", args |-> <<ExtractorInput, 1>>,
               val |-> _extract_classes_from_source(ExtractorInput, 1)]
    /\ UNCHANGED <<samples_dir, objs, components, examples, by_name, status, project_dir>>

ExtractorNext == ExtractClasses \/ Construct

ExtractorSpec == ExtractorInit /\ [][ExtractorNext]_vars

(***************************************************************************)
(* The cell extractor on its own: a notebook of code and markdown cells     *)
(* whose sources are strings or lists of fragments, then the call.          *)
(***************************************************************************)
MaxNotebookCells == 2
MaxFragments == 2

Fragments == {<<BlankLine>>, <<StmtLine>>}

\* The code cells with a source of either form, the code cell without a
\* source (cell.get("source", []) gives the empty list) and a markdown cell.
NotebookCells ==
    {[cell_type |-> "code", is_list |-> TRUE, source |-> <<>>, fragments |-> fs] :
        fs \in SeqsUpTo(Fragments, MaxFragments)}
    \cup {CodeCell(Flatten(fs)) : fs \in SeqsUpTo(Fragments, MaxFragments)}
    \cup {[CodeCell(<<StmtLine>>) EXCEPT !.cell_type = "markdown"]}

CellInit ==
    /\ \E n \in 0..MaxNotebookCells :
          \E cs \in [1..n -> NotebookCells] :
              samples_dir = [exists |-> TRUE,
                             files |-> (1 :> [valid |-> TRUE, cells |-> cs])]
    /\ Fresh

ExtractCodeCells ==
    /\ ret.op = "none"
    /\ ret' = [op |-> "_extract_code_cells", args |-> <<samples_dir.files[1]>>,
               val |-> _extract_code_cells(samples_dir.files[1])]
    /\ UNCHANGED <<samples_dir, objs, components, examples, by_name, status, project_dir>>

CellNext == ExtractCodeCells

CellSpec == CellInit /\ [][CellNext]_vars

(***************************************************************************)
(* The project directory under save, load and render requests.              *)
(***************************************************************************)
MaxCodeLen == 1

\* The scene codes of the requests: texts with and without a carriage
\* return.
Codes == SeqsUpTo({"x", "CR"}, MaxCodeLen)

\* The storyboards of the requests: the object without members and objects
\* whose string holds a plain character or a carriage return.
Storyboards == {<<>>, <<"x">>, <<"CR">>}

SaveRequests ==
    {[storyboard_json |-> sb, scene_code |-> sc] :
        sb \in {None} \cup {Some(x) : x \in Storyboards},
        sc \in {None} \cup {Some(c) : c \in Codes}}

Videos == {<<"video 1">>, <<"video 2">>}

Runs ==
    {[kind |-> "finished", returncode |-> 1, produced |-> v, copy |-> "done"] :
        v \in {<<>>} \cup Videos}
    \cup {[kind |-> "finished", returncode |-> 0, produced |-> v, copy |-> c] :
            v \in {<<>>} \cup Videos, c \in {"done", "unopened", "truncated"}}
    \cup {[kind |-> "timeout", returncode |-> 0, produced |-> v, copy |-> "done"] :
            v \in {<<>>} \cup Videos}
    \cup {[kind |-> "exception", returncode |-> 0, produced |-> <<>>, copy |-> "done"]}

ProjectInit == samples_dir = [exists |-> FALSE, files |-> <<>>] /\ Fresh

SaveProject ==
    \E req \in SaveRequests :
        /\ project_dir' = save_project(project_dir, req)
        /\ ret' = [op |-> "save_project", args |-> <<req>>, val |-> <<>>]
        /\ UNCHANGED <<samples_dir, objs, components, examples, by_name, status>>

LoadProject ==
    /\ project_dir' = load_project(project_dir).dir
    /\ ret' = [op |-> "load_project", args |-> <<>>,
               val |-> <<load_project(project_dir).response>>]
    /\ UNCHANGED <<samples_dir, objs, components, examples, by_name, status>>

RenderScene ==
    \E code \in Codes, run \in Runs :
        /\ project_dir' = render_scene(project_dir, [scene_code |-> code], run).dir
        /\ ret' = [op |-> "render_scene", args |-> <<[scene_code |-> code], run>>,
                   val |-> <<render_scene(project_dir, [scene_code |-> code], run).response>>]
        /\ UNCHANGED <<samples_dir, objs, components, examples, by_name, status>>

ProjectNext == SaveProject \/ LoadProject \/ RenderScene

ProjectSpec == ProjectInit /\ [][ProjectNext]_vars

(***************************************************************************)
(* Properties of the load.                                                  *)
(***************************************************************************)
\* The k-th smallest element of a set of numbers.
KthSmallest(S, k) == CHOOSE x \in S : Cardinality({y \in S : y <= x}) = k

IsSceneClass(cls) == cls.is_scene
IsComponentClass(cls) == ~cls.is_scene

\* The file names of a directory in lexicographic order.
NotebookOrder(dir) ==
    [k \in 1..Cardinality(DOMAIN dir.files) |-> KthSmallest(DOMAIN dir.files, k)]

\* The code cells of the notebook stored under a file name.
CellsOf(dir, nb) == _extract_code_cells(dir.files[nb]).cells

\* The entries of a list of references, by value.
Entries(c, refs) == [j \in 1..Len(refs) |-> c.objs[refs[j]]]

\* The entries of a sequence whose name no earlier entry has.
FirstByName(s) ==
    LET keep == {i \in 1..Len(s) : \A j \in 1..(i - 1) : s[j].name # s[i].name}
    IN  [k \in 1..Cardinality(keep) |-> s[KthSmallest(keep, k)]]

\* The directory without its malformed notebooks.
WellFormedOnly(dir) ==
    [dir EXCEPT !.files = [nb \in {x \in DOMAIN dir.files : dir.files[x].valid}
                              |-> dir.files[nb]]]

\* C1: building the catalog never fails; a notebook that is not valid
\* structured content is skipped and the catalog holds what the well-formed
\* notebooks contribute.
C1_LoadIsolatesFailures ==
    status # "new" =>
        /\ status = "loaded"
        /\ LET c == _load(WellFormedOnly(samples_dir))
           IN  /\ Entries(Cat, components) = Entries(c, c.components)
               /\ Entries(Cat, examples) = Entries(c, c.examples)

\* C2: get_by_name(n) is the entry registered first under the name n, among
\* components and examples together; a later registration does not replace it.
C2_FirstRegistrationWins ==
    status = "loaded" =>
        \A n \in DOMAIN by_name :
            get_by_name(Cat, n) =
                KthSmallest({i \in 1..Len(objs) : objs[i].name = n}, 1)

\* C3: every entry of get_components has is_scene = false and every entry of
\* get_examples has is_scene = true.
C3_Partition ==
    /\ \A j \in 1..Len(get_components(Cat)) : ~objs[get_components(Cat)[j]].is_scene
    /\ \A j \in 1..Len(get_examples(Cat)) : objs[get_examples(Cat)[j]].is_scene

\* A load that registered components and examples.
C3_Witness ==
    /\ status = "loaded"
    /\ components # <<>>
    /\ examples # <<>>

\* The cell the selector chose in a notebook.
ChosenCell(dir, nb) == _find_component_cell(CellsOf(dir, nb))

\* Every class declared in the directory: notebooks in filename order, cells
\* in file order, classes in declaration order.
AllDeclared(dir) ==
    Flatten([k \in 1..Len(NotebookOrder(dir)) |->
        LET nb == NotebookOrder(dir)[k]
        IN  Flatten([j \in 1..Len(CellsOf(dir, nb)) |->
                _extract_classes_from_source(CellsOf(dir, nb)[j], nb)])])

\* The classes the load considers for the component list: the non-scene
\* classes of the chosen cell of each notebook.
ComponentCandidates(dir) ==
    Flatten([k \in 1..Len(NotebookOrder(dir)) |->
        LET nb == NotebookOrder(dir)[k]
        IN  IF ChosenCell(dir, nb).found
            THEN SelectSeq(_extract_classes_from_source(ChosenCell(dir, nb).cell, nb),
                           IsComponentClass)
            ELSE <<>>])

\* The classes the load considers for the example list: the scene classes of
\* the cells whose text is not that of the chosen cell.
ExampleCandidates(dir) ==
    Flatten([k \in 1..Len(NotebookOrder(dir)) |->
        LET nb == NotebookOrder(dir)[k]
        IN  Flatten([j \in 1..Len(CellsOf(dir, nb)) |->
                IF ChosenCell(dir, nb).found /\ CellsOf(dir, nb)[j] = ChosenCell(dir, nb).cell
                THEN <<>>
                ELSE SelectSeq(_extract_classes_from_source(CellsOf(dir, nb)[j], nb),
                               IsSceneClass)])])

NoSharedName(s) == \A i, j \in 1..Len(s) : s[i].name = s[j].name => i = j

\* The first class of a sequence with the name and the kind of e.
FirstLike(s, e) ==
    s[KthSmallest({i \in 1..Len(s) : s[i].name = e.name /\ s[i].is_scene = e.is_scene}, 1)]

\* C4 as stated: no list holds a name twice, and the entry a list retains
\* for a name is the first class of that name declared in the directory,
\* notebooks in filename order, cells in file order, classes in declaration
\* order.
C4_FirstDeclaredRetained ==
    status = "loaded" =>
        /\ NoSharedName(Entries(Cat, components))
        /\ NoSharedName(Entries(Cat, examples))
        /\ \A j \in 1..Len(components) :
              objs[components[j]] = FirstLike(AllDeclared(samples_dir), objs[components[j]])
        /\ \A j \in 1..Len(examples) :
              objs[examples[j]] = FirstLike(AllDeclared(samples_dir), objs[examples[j]])

\* C4 amended: no list holds a name twice, and each list is, in order, the
\* first class of each name among the classes the load considers for that
\* list.
C4_FirstConsideredRetained ==
    status = "loaded" =>
        /\ NoSharedName(Entries(Cat, components))
        /\ NoSharedName(Entries(Cat, examples))
        /\ Entries(Cat, components) = FirstByName(ComponentCandidates(samples_dir))
        /\ Entries(Cat, examples) = FirstByName(ExampleCandidates(samples_dir))

\* Two notebooks offer different components of one name and the list holds
\* the one of the first notebook.
C4_Witness ==
    /\ status = "loaded"
    /\ \E j \in 1..Len(components) :
          /\ objs[components[j]].notebook = 1
          /\ \E k \in 1..Len(ComponentCandidates(samples_dir)) :
                LET cand == ComponentCandidates(samples_dir)[k]
                IN  /\ cand.name = objs[components[j]].name
                    /\ cand.notebook = 2
                    /\ cand.source # objs[components[j]].source

\* The position of the cell the selector chose in a list of cells (0: none).
ChosenPosition(cells) ==
    IF _find_component_cell(cells).found
    THEN KthSmallest({j \in 1..Len(cells) : cells[j] = _find_component_cell(cells).cell}, 1)
    ELSE 0

\* C6: components come only from the chosen cell of a notebook, and every
\* scene class in a cell at any other position of the notebook is registered
\* as an example unless an example of its name already exists.
C6_OtherCellsExtracted ==
    status = "loaded" =>
        /\ \A j \in 1..Len(components) :
              \E nb \in DOMAIN samples_dir.files :
                  /\ ChosenCell(samples_dir, nb).found
                  /\ objs[components[j]] \in
                        SeqRange(_extract_classes_from_source(
                                    ChosenCell(samples_dir, nb).cell, nb))
        /\ \A nb \in DOMAIN samples_dir.files :
              \A p \in (1..Len(CellsOf(samples_dir, nb)))
                          \ {ChosenPosition(CellsOf(samples_dir, nb))} :
                  LET classes == _extract_classes_from_source(CellsOf(samples_dir, nb)[p], nb)
                  IN  \A i \in 1..Len(classes) :
                          classes[i].is_scene =>
                              \E j \in 1..Len(examples) :
                                  objs[examples[j]].name = classes[i].name

(***************************************************************************)
(* Properties of the component-cell selector.                               *)
(***************************************************************************)
\* C5: the selector returns the first cell whose count of top-level classes
\* without a scene base is the greatest of all cells, when that count is
\* above zero, and None when there is no cell or every count is zero.
C5_FirstCellOfGreatestCount ==
    ret.op = "_find_component_cell" =>
        LET cells == ret.args[1]
            greatest == {j \in 1..Len(cells) :
                            \A p \in 1..Len(cells) :
                                ComponentCount(cells[p]) <= ComponentCount(cells[j])}
        IN  IF cells = <<>> \/ \A j \in 1..Len(cells) : ComponentCount(cells[j]) = 0
            THEN ret.val = NoCell
            ELSE /\ ret.val.found
                 /\ ret.val.cell = cells[KthSmallest(greatest, 1)]

\* Two different cells share the greatest count and the first of the two
\* is returned.
C5_Witness ==
    /\ ret.op = "_find_component_cell"
    /\ Len(ret.args[1]) = 2
    /\ ComponentCount(ret.args[1][1]) = 2
    /\ ComponentCount(ret.args[1][2]) = 2
    /\ ret.args[1][1] # ret.args[1][2]
    /\ ret.val = [found |-> TRUE, cell |-> ret.args[1][1]]

\* The selector finds nothing in cells that hold only scenes, no class, or
\* text that does not parse.
C5_WitnessNone ==
    /\ ret.op = "_find_component_cell"
    /\ Len(ret.args[1]) = 2
    /\ ~ParseOk(ret.args[1][1])
    /\ ret.args[1][2] = <<StmtLine>>
    /\ ret.val = NoCell

(***************************************************************************)
(* Properties of the queries.                                               *)
(***************************************************************************)
IsHeading(line) == line.k = "heading"
IsBullet(line) == line.k = "bullet"

\* The labels of the categories of the components, each once, in the order
\* in which the categories first occur.
FirstSeenLabels(c) ==
    LET cats == [j \in 1..Len(c.components) |->
                    [name |-> c.objs[c.components[j]].category]]
    IN  [g \in 1..Len(FirstByName(cats)) |-> CATEGORY_LABELS[FirstByName(cats)[g].name]]

\* C7: get_summary holds one heading per distinct category, in first-seen
\* order, each right before the first member of its category, and one bullet
\* per component.
C7_OneHeadingPerCategory ==
    ret.op = "get_summary" =>
        LET headings == SelectSeq(ret.val, IsHeading)
            bullets == SelectSeq(ret.val, IsBullet)
        IN  /\ [g \in 1..Len(headings) |-> headings[g].txt] = FirstSeenLabels(Cat)
            /\ bullets = [j \in 1..Len(components) |-> BulletLine(objs[components[j]])]
            /\ \A h \in 1..Len(ret.val) :
                  IsHeading(ret.val[h]) =>
                      /\ h < Len(ret.val)
                      /\ IsBullet(ret.val[h + 1])
                      /\ \E j \in 1..Len(components) :
                            /\ ret.val[h + 1].name = objs[components[j]].name
                            /\ CATEGORY_LABELS[objs[components[j]].category] = ret.val[h].txt
                            /\ \A i \in 1..(j - 1) :
                                  objs[components[i]].category # objs[components[j]].category

\* The positions in the component list that a names argument selects.
Selected(c, names) ==
    {i \in 1..Len(c.components) :
        names.is_none \/ c.objs[c.components[i]].name \in SeqRange(names.v)}

\* The number of lines of the result before the source of the selected
\* position i: the earlier selected sources, each with its separator.
RECURSIVE LinesBefore(_, _, _)
LinesBefore(c, sel, i) ==
    IF {j \in sel : j < i} = {} THEN 0
    ELSE LET m == SetMax({j \in sel : j < i})
         IN  LinesBefore(c, sel, m) + Len(c.objs[c.components[m]].source) + 2

\* C8: get_component_source is the sources of the selected components in
\* registration order with the separator between consecutive ones: all
\* components for None, else those whose name is among the names given; it
\* is empty exactly when nothing is selected.
C8_SelectedSourcesJoined ==
    ret.op = "get_component_source" =>
        LET sel == Selected(Cat, ret.args[1])
            src(i) == objs[components[i]].source
            off(i) == LinesBefore(Cat, sel, i)
        IN  /\ (ret.val = <<>>) <=> (sel = {})
            /\ sel # {} => Len(ret.val) = off(SetMax(sel)) + Len(src(SetMax(sel)))
            /\ \A i \in sel :
                  /\ off(i) + Len(src(i)) <= Len(ret.val)
                  /\ SubSeq(ret.val, off(i) + 1, off(i) + Len(src(i))) = src(i)
                  /\ off(i) > 0 =>
                        /\ ret.val[off(i) - 1] = BlankLine
                        /\ ret.val[off(i)] = BlankLine

\* The names are given against the registration order and the result holds
\* the two sources in registration order.
C8_Witness ==
    /\ ret.op = "get_component_source"
    /\ ret.args[1] = Some(<<"Hadamard", "Node">>)
    /\ Len(components) >= 2
    /\ objs[components[1]].name = "Node"
    /\ objs[components[2]].name = "Hadamard"
    /\ ret.val = objs[components[1]].source \o <<BlankLine, BlankLine>>
                    \o objs[components[2]].source

\* C9: get_example_source(name) is the source of the entry the name index
\* holds under the name when that entry is a scene, and None otherwise.
C9_SourceOnlyOfScene ==
    ret.op = "get_example_source" =>
        IF ret.args[1] \in DOMAIN by_name /\ objs[by_name[ret.args[1]]].is_scene
        THEN ret.val = Some(objs[by_name[ret.args[1]]].source)
        ELSE ret.val = None

\* The name is that of a registered component and the result is None.
C9_Witness ==
    /\ ret.op = "get_example_source"
    /\ ret.args[1] \in DOMAIN by_name
    /\ ~objs[by_name[ret.args[1]]].is_scene
    /\ ret.val = None

\* The results of the queries, entries and base_classes lists by value.
QueryValues(c) ==
    [get_components |-> Entries(c, get_components(c)),
     get_examples |-> Entries(c, get_examples(c)),
     get_by_name |-> [n \in QueryNames |->
                        {c.objs[r] : r \in {get_by_name(c, n)} \ {0}}],
     get_by_category |-> [k \in QueryCategories |-> Entries(c, get_by_category(c, k))],
     get_categories |->
        [g \in 1..Len(get_categories(c)) |->
            [get_categories(c)[g] EXCEPT !.components =
                [j \in 1..Len(@) |->
                    [@[j] EXCEPT !.base_classes = c.objs[@].base_classes]]]],
     get_component_source |-> get_component_source(c, None),
     get_summary |-> get_summary(c),
     get_example_source |-> [n \in QueryNames |-> get_example_source(c, n)],
     get_examples_list |-> get_examples_list(c)]

\* The catalog in the next state.
CatNext == [objs |-> objs', components |-> components', examples |-> examples',
            by_name |-> by_name']

\* C10: no step on the constructed catalog, a query or a caller's mutation of
\* a sequence a query returned, changes the result of any query.
C10_ResultsSurviveMutation ==
    [][status = "loaded" => QueryValues(CatNext) = QueryValues(Cat)]_vars

(***************************************************************************)
(* Properties of the constructed catalog under queries and handlers.        *)
(***************************************************************************)
\* C11: the catalog is constructed once, and after construction no query
\* operation and no request handler changes the component list, the example
\* list, the name index or the entries they hold.
C11_BuiltOnceReadOnly ==
    [][/\ status # "new" => status' = status
       /\ status = "loaded" =>
            /\ components' = components
            /\ examples' = examples
            /\ by_name' = by_name
            /\ objs' = objs]_vars

\* A handler has answered from a catalog of components of two categories
\* that interleave.
C11_Witness ==
    /\ status = "loaded"
    /\ ret.op = "build_system_prompt"
    /\ Len(components) = 3
    /\ objs[components[1]].category = objs[components[3]].category
    /\ objs[components[1]].category # objs[components[2]].category

(***************************************************************************)
(* Properties of the class extractor.                                       *)
(***************************************************************************)
\* The lines of a text that are class headers, in order.
ClassHeaders(text) == SelectSeq(text, LAMBDA line : line.k = "class")

\* C12: for a text that does not parse the extractor returns the empty list,
\* and the load of the notebook completes and registers the scene of the
\* next cell.
C12_UnparseableYieldsNothing ==
    ~ParseOk(ExtractorInput) =>
        /\ ret.op = "_extract_classes_from_source" => ret.val = <<>>
        /\ status # "new" =>
              /\ status = "loaded"
              /\ components = <<>>
              /\ Len(examples) = 1
              /\ objs[examples[1]].name = "Demo"

\* The extractor was called on a text with a class header and a line that
\* does not parse, and the notebook was loaded.
C12_Witness ==
    /\ ret.op = "_extract_classes_from_source"
    /\ status = "loaded"
    /\ ClassHeaders(ret.args[1]) # <<>>
    /\ \E i \in 1..Len(ret.args[1]) : ret.args[1][i].k = "bad"
    /\ ret.val = <<>>
    /\ examples # <<>>

\* The categories of the fixed table.
FixedCategories ==
    {"circuit_elements", "superconducting", "quantum_gates", "atoms", "spin",
     "bloch_sphere", "complexity"}

\* C13: the extractor returns one entry per class header of a text that
\* parses, under the header's name; its category is the table's value for
\* the name when the table has the name, else "examples" for a scene and
\* "other" for any other class, hence one of the fixed categories,
\* "examples" or "other".
C13_CategoryAssigned ==
    ret.op = "_extract_classes_from_source" =>
        /\ ParseOk(ret.args[1]) => Len(ret.val) = Len(ClassHeaders(ret.args[1]))
        /\ \A k \in 1..Len(ret.val) :
              /\ ret.val[k].name = ClassHeaders(ret.args[1])[k].name
              /\ ret.val[k].name \in DOMAIN CATEGORY_MAP =>
                    ret.val[k].category = CATEGORY_MAP[ret.val[k].name]
              /\ ret.val[k].name \notin DOMAIN CATEGORY_MAP =>
                    ret.val[k].category = IF ret.val[k].is_scene THEN "examples" ELSE "other"
              /\ ret.val[k].category \in FixedCategories \cup {"examples", "other"}

\* A scene whose name is in the table keeps the table's category, next to a
\* scene whose name is not in the table.
C13_Witness ==
    /\ ret.op = "_extract_classes_from_source"
    /\ \E k \in 1..Len(ret.val) :
          /\ ret.val[k].name = "Hadamard"
          /\ ret.val[k].is_scene
          /\ ret.val[k].category = "quantum_gates"
    /\ \E k \in 1..Len(ret.val) :
          /\ ret.val[k].name = "Custom"
          /\ ret.val[k].category = "examples"

IsNamedBase(b) == b.k \in {"name", "attr"}

\* C14: base_classes is, in declaration order, the identifier of every bare
\* name and the dotted path of every attribute access among the declared
\* bases (a base of another form gives nothing), and is_scene holds iff one
\* of these strings is Scene, ThreeDScene, MovingCameraScene or ZoomedScene.
C14_SceneByBaseNames ==
    ret.op = "_extract_classes_from_source" =>
        \A k \in 1..Len(ret.val) :
            LET declared == SelectSeq(ClassHeaders(ret.args[1])[k].bases, IsNamedBase)
            IN  /\ ret.val[k].base_classes = [j \in 1..Len(declared) |-> declared[j].id]
                /\ ret.val[k].is_scene <=>
                      \E j \in 1..Len(ret.val[k].base_classes) :
                          ret.val[k].base_classes[j] \in
                              {"Scene", "ThreeDScene", "MovingCameraScene", "ZoomedScene"}

\* A class whose only mention of Scene is a dotted path is not a scene, next
\* to a class that is a scene by its second base.
C14_Witness ==
    /\ ret.op = "_extract_classes_from_source"
    /\ \E k \in 1..Len(ret.val) :
          /\ ret.val[k].base_classes = <<"manim.Scene", "VGroup">>
          /\ ~ret.val[k].is_scene
    /\ \E k \in 1..Len(ret.val) :
          /\ ret.val[k].base_classes = <<"VGroup", "ThreeDScene">>
          /\ ret.val[k].is_scene

\* The line of the k-th class header of a text.
HeaderIndex(text, k) ==
    CHOOSE i \in 1..Len(text) :
        /\ text[i].k = "class"
        /\ Cardinality({j \in 1..i : text[j].k = "class"}) = k

\* The last line of the definition whose header is line i.
LastBody(text, i) ==
    SetMax({j \in (i + 1)..Len(text) :
                /\ text[j].k = "body"
                /\ \A m \in (i + 1)..j : text[m].k \in {"body", "blank"}})

\* C15: requires_latex of an extracted class holds iff a line of the class's
\* own definition, header included, contains "MathTex" or "Tex(".
C15_LatexBySubstring ==
    ret.op = "_extract_classes_from_source" =>
        \A k \in 1..Len(ret.val) :
            LET i == HeaderIndex(ret.args[1], k)
            IN  ret.val[k].requires_latex <=>
                    \E m \in i..LastBody(ret.args[1], i) : LineHasLatex(ret.args[1][m])

\* A class whose only text primitive is Text(...) is not flagged although
\* the text around it uses MathTex.
C15_Witness ==
    /\ ret.op = "_extract_classes_from_source"
    /\ \E k \in 1..Len(ret.val) :
          /\ ret.val[k].source = <<ClassLine("Node", <<NameBase("VGroup")>>), BodyLine("Text(x)")>>
          /\ ~ret.val[k].requires_latex
    /\ \E m \in 1..Len(ret.args[1]) : LineHasLatex(ret.args[1][m])

(***************************************************************************)
(* Properties of the cell extractor.                                        *)
(***************************************************************************)
\* The text of a cell: a string as it is, a list of fragments one after the
\* other.
Concatenated(cell) ==
    IF cell.is_list
    THEN [p \in 1..Len(Flatten(cell.fragments)) |-> Flatten(cell.fragments)[p]]
    ELSE cell.source

\* The cell is a code cell whose text has a line that is not blank.
IsKept(cell) ==
    /\ cell.cell_type = "code"
    /\ \E p \in 1..Len(Concatenated(cell)) : Concatenated(cell)[p].k # "blank"

\* C16: the cell extractor returns, in file order, the text of every cell of
\* type "code" whose text is not blank: a string source as it is, a list of
\* fragments concatenated with nothing between them.
C16_CodeCellsInOrder ==
    ret.op = "_extract_code_cells" =>
        LET kept == SelectSeq(ret.args[1].cells, IsKept)
        IN  /\ ~ret.val.raised
            /\ ret.val.cells = [j \in 1..Len(kept) |-> Concatenated(kept[j])]

\* A markdown cell is left out and a list of two fragments is returned as
\* the two fragments one after the other.
C16_Witness ==
    /\ ret.op = "_extract_code_cells"
    /\ Len(ret.args[1].cells) = 2
    /\ ret.args[1].cells[1].cell_type = "markdown"
    /\ ret.args[1].cells[2] =
          [cell_type |-> "code", is_list |-> TRUE, source |-> <<>>,
           fragments |-> <<<<BlankLine>>, <<StmtLine>>>>]
    /\ ret.val.cells = <<<<BlankLine, StmtLine>>>>

(***************************************************************************)
(* Properties of the queries and of the request handlers.                   *)
(***************************************************************************)
\* The names of a sequence of records.
Names(s) == [j \in 1..Len(s) |-> s[j].name]

\* The registered components of a category, in registration order.
ComponentsOf(category) ==
    SelectSeq(Entries(Cat, components), LAMBDA e : e.category = category)

\* C17: the groups of get_categories are the categories of the components in
\* first-seen order; every component is in exactly one group, that of its
\* category; and the names of each group are, in order, the names of the
\* components of that category in registration order, which are the names
\* of get_by_category for the group.
C17_CategoriesPartition ==
    ret.op = "get_categories" =>
        /\ Names(ret.val) =
              Names(FirstByName([j \in 1..Len(components) |->
                                    [name |-> objs[components[j]].category]]))
        /\ \A j \in 1..Len(components) :
              /\ Cardinality({gp \in {<<g, p>> : g \in 1..Len(ret.val), p \in 1..Len(components)} :
                                /\ gp[2] <= Len(ret.val[gp[1]].components)
                                /\ ret.val[gp[1]].components[gp[2]].name
                                        = objs[components[j]].name}) = 1
              /\ \E g \in 1..Len(ret.val) :
                    /\ ret.val[g].name = objs[components[j]].category
                    /\ objs[components[j]].name \in SeqRange(Names(ret.val[g].components))
        /\ \A g \in 1..Len(ret.val) :
              /\ Names(ret.val[g].components) = Names(ComponentsOf(ret.val[g].name))
              /\ Names(ret.val[g].components)
                    = Names(Entries(Cat, get_by_category(Cat, ret.val[g].name)))

\* Three components whose categories interleave are returned as two groups,
\* the first of two components.
C17_Witness ==
    /\ ret.op = "get_categories"
    /\ Len(components) = 3
    /\ objs[components[1]].category # objs[components[2]].category
    /\ Len(ret.val) = 2
    /\ Len(ret.val[1].components) = 2

\* The lines of a prompt that are the heading h.
HeadingsIn(prompt, h) == {j \in 1..Len(prompt) : prompt[j] = h}

\* The names of the selection that are names of registered components.
SelectedRegistered(selected_components) ==
    IF selected_components.is_none THEN {}
    ELSE {n \in SeqRange(selected_components.v) :
            \E i \in 1..Len(components) : objs[components[i]].name = n}

C19_WitnessSummary ==
    /\ ret.op = "build_system_prompt"
    /\ components # <<>>
    /\ ret.args[2] = Some(<<>>)
    /\ HeadingsIn(ret.val, SummaryHeading) # {}

\* C20: after a load, every entry e of the example list is retrievable by
\* its name: get_example_source(e.name) returns e.source and
\* get_by_name(e.name) returns an entry that is a scene.
C20_ExamplesRetrievable ==
    status = "loaded" =>
        \A j \in 1..Len(get_examples(Cat)) :
            LET e == objs[get_examples(Cat)[j]]
            IN  /\ get_example_source(Cat, e.name) = Some(e.source)
                /\ get_by_name(Cat, e.name) # 0
                /\ objs[get_by_name(Cat, e.name)].is_scene

\* The first line of the definition whose header is line i: the first of
\* the decorator lines that lead to the header, or the header.
DefinitionStart(text, i) ==
    CHOOSE s \in 1..i :
        /\ s = i \/ text[s].k = "decorator"
        /\ \A m \in s..(i - 1) : text[m].k \in {"decorator", "blank"}
        /\ \A t \in 1..(s - 1) :
              ~(/\ text[t].k = "decorator"
                /\ \A m \in t..(i - 1) : text[m].k \in {"decorator", "blank"})

\* C21: the source of an extracted class is the lines of the text from the
\* first decorator line of the definition, or its header when it has none,
\* to the last line of the definition, without trailing blank lines; it is
\* never empty.
C21_SourceCoversDefinition ==
    ret.op = "_extract_classes_from_source" =>
        \A k \in 1..Len(ret.val) :
            LET i == HeaderIndex(ret.args[1], k)
            IN  /\ ret.val[k].source =
                      RStrip(SubSeq(ret.args[1], DefinitionStart(ret.args[1], i),
                                    LastBody(ret.args[1], i)))
                /\ ret.val[k].source # <<>>

\* The entries of a list of extracted classes that are not scenes.
NonScenes(classes) == SelectSeq(classes, LAMBDA cls : ~cls.is_scene)

\* C22: the count the selector computes for a text is the number of
\* non-scene entries the extractor returns for it, and the cell the selector
\* chooses among the cells of the notebook yields a non-scene entry.
C22_SelectorExtractorAgree ==
    /\ ret.op = "_extract_classes_from_source" =>
          ComponentCount(ret.args[1]) = Len(NonScenes(ret.val))
    /\ LET chosen == _find_component_cell(_extract_code_cells(samples_dir.files[1]).cells)
       IN  chosen.found => NonScenes(_extract_classes_from_source(chosen.cell, 1)) # <<>>

\* A text that declares a class with a dotted base and a scene: one of the
\* two entries is counted.
C22_Witness ==
    /\ ret.op = "_extract_classes_from_source"
    /\ Len(ret.val) = 2
    /\ \E k \in 1..2 : "manim.Scene" \in SeqRange(ret.val[k].base_classes)
    /\ \E k \in 1..2 : ret.val[k].is_scene
    /\ ComponentCount(ret.args[1]) = 1
    /\ _find_component_cell(_extract_code_cells(samples_dir.files[1]).cells).found

\* The entries of the component list and of the example list.
Registered == SeqRange(components) \cup SeqRange(examples)

\* C23: after a load, get_by_name(n) is an entry exactly when n is the name
\* of an entry of the component list or of the example list, and the entry
\* it returns has the name n and is an entry of one of the two lists.
C23_NameIndexConsistent ==
    status = "loaded" =>
        \A n \in QueryNames :
            /\ get_by_name(Cat, n) # 0 <=> \E e \in Registered : objs[e].name = n
            /\ get_by_name(Cat, n) # 0 =>
                  /\ objs[get_by_name(Cat, n)].name = n
                  /\ get_by_name(Cat, n) \in Registered

\* A load that registered one name in both lists: the name index gives the
\* entry of the example list, and nothing for a name that is in no list.
C23_Witness ==
    /\ status = "loaded"
    /\ \E e \in SeqRange(components) : \E f \in SeqRange(examples) :
          /\ objs[e].name = objs[f].name
          /\ get_by_name(Cat, objs[e].name) = f
    /\ get_by_name(Cat, "Missing") = 0

(***************************************************************************)
(* Properties of the project directory.                                     *)
(***************************************************************************)
\* C18: a load right after a save returns the scene code and the storyboard
\* that the save gave; a save leaves the file of a field that is null as it
\* was; and a load of a project without a stored scene returns the default
\* scene, has_render = false and no storyboard.
C18_SaveLoadRoundTrip ==
    [][/\ ret.op = "save_project" /\ ret'.op = "load_project" =>
            /\ ~ret.args[1].scene_code.is_none =>
                  ret'.val[1].scene_code = ret.args[1].scene_code.v
            /\ ~ret.args[1].storyboard_json.is_none =>
                  ret'.val[1].storyboard_json = ret.args[1].storyboard_json
       /\ ret'.op = "save_project" =>
            /\ ret'.args[1].scene_code.is_none => project_dir'.scene = project_dir.scene
            /\ ret'.args[1].storyboard_json.is_none =>
                  project_dir'.storyboard = project_dir.storyboard
       /\ ret'.op = "load_project" /\ ~project_dir.scene.exists =>
            ret'.val[1] = [storyboard_json |-> None, scene_code |-> DEFAULT_SCENE,
                           has_render |-> FALSE]]_vars

\* A render fails when the subprocess exits with a non-zero status, writes
\* no video, is killed at the timeout, or an exception is raised.
Failed(run) ==
    \/ run.kind \in {"timeout", "exception"}
    \/ run.returncode # 0
    \/ run.produced = <<>>
    \/ run.copy # "done"

\* C24: a render that fails returns ok = false and no mp4_url and leaves
\* render.mp4 as it was, while the stored scene is the submitted code and
\* render.log the log of the response; render.mp4 comes to exist only by a
\* render that does not fail and no other call changes whether it exists,
\* and load reports has_render as whether it exists.
C24_FailedRenderKeepsVideo ==
    [][/\ ret'.op = "render_scene" =>
            LET req == ret'.args[1]
                run == ret'.args[2]
                response == ret'.val[1]
            IN  /\ Failed(run) =>
                      /\ response.ok = FALSE
                      /\ response.mp4_url = None
                      /\ project_dir'.render_mp4 = project_dir.render_mp4
                      /\ project_dir'.scene = File(WriteText(req.scene_code))
                      /\ project_dir'.render_log = File(WriteText(response.log))
                /\ project_dir'.render_mp4.exists <=>
                      (project_dir.render_mp4.exists \/ ~Failed(run))
       /\ ret'.op # "render_scene" =>
            project_dir'.render_mp4.exists = project_dir.render_mp4.exists
       /\ ret'.op = "load_project" =>
            ret'.val[1].has_render = project_dir.render_mp4.exists]_vars

====
